---- MODULE Spec2Model ----
(***************************************************************************)
(* A model of spx::SpxQueue<T, Lock> (src/src/utils/spx_queue.h): a        *)
(* std::vector<T> data_ guarded by one mutex_ per instance.  Every public  *)
(* member function is modelled as the sequence of steps one thread takes:  *)
(* the call, the acquisition of the guard, each statement of the body and  *)
(* the release of the guard at the return.  Threads interleave between     *)
(* steps.                                                                  *)
(***************************************************************************)
EXTENDS Integers, Sequences, FiniteSets, TLC

\* ------------------------------------------------------------------ bounds
NumThreads == 2      \* threads 1..NumThreads
MaxPush == 1         \* pushes in the runs that mix every operation
MaxTag == 3          \* pushes in the runs on one instance (tags 1..MaxTag)
MaxVal == 2          \* element values of the sequential runs (duplicates allowed)
MaxLog == 6          \* calls of a sequential run
MaxLen == 2          \* length of each instance's sequence when a move run starts
MaxMoves == 2        \* moves of a sequential move run
MaxCalls == 4        \* calls of a sequential run with clear

Max(a, b) == IF a > b THEN a ELSE b
Threads == 1 .. NumThreads
\* The thread of the sequential runs.
Caller == CHOOSE t \in Threads : \A u \in Threads : t <= u
Insts == {"A", "B"}
Vals == 1 .. MaxVal
Elems == 1 .. Max(Max(MaxTag, MaxPush), Max(MaxVal, 2 * MaxLen))
NoThread == 0

VARIABLES
  data,     \* data[q]: the vector data_ of instance q, front first
  mutex,    \* mutex[q]: the thread that holds mutex_ of q, or NoThread
  alive,    \* alive[q]: q has been constructed and is visible to callers
  pc,       \* pc[t]: the statement thread t executes next
  call,     \* call[t]: the call thread t is in (op, this, other, argument)
  loc,      \* loc[t]: std::lock's index of the lock it blocks on first
  ret,      \* ret[t]: the value the call in progress is about to return
  abs,      \* abs[q]: the sequence of q when the last call on q returned
  recv,     \* recv[v]: how many pop/steal calls have returned v
  npush,    \* number of push calls made
  log       \* the recorded calls, in the order they returned

vars == <<data, mutex, alive, pc, call, loc, ret, abs, recv, npush, log>>

\* ------------------------------------------------------ values and results
NoCall == [op |-> "none", q |-> "A", other |-> "A", arg |-> 0]
MkCall(o, q, other, arg) == [op |-> o, q |-> q, other |-> other, arg |-> arg]

NoRet == [kind |-> "none", val |-> 0]
Void == [kind |-> "void", val |-> 0]
Nullopt == [kind |-> "nullopt", val |-> 0]
Some(v) == [kind |-> "some", val |-> v]
Bool(b) == [kind |-> IF b THEN "true" ELSE "false", val |-> 0]
Size(n) == [kind |-> "size", val |-> n]

\* ------------------------------------------------- std::vector operations
VecEmpty(d) == Len(d) = 0
VecSize(d) == Len(d)
EmplaceFront(d, v) == <<v>> \o d      \* an insertion at the wrong end
EmplaceBack(d, v) == Append(d, v)
Front(d) == d[1]
Back(d) == d[Len(d)]
EraseBegin(d) == SubSeq(d, 2, Len(d))
PopBack(d) == SubSeq(d, 1, Len(d) - 1)
\* A clear that leaves the vector as it is.
VecClearKeeps(d) == d

VecClear(d) == << >>

\* ------------------------------------------------------------- the guard
\* A lock() that does not wait for the owner to release the mutex.
MutexLockNoWait(t, q) ==
  mutex' = [mutex EXCEPT ![q] = t]

\* lock(): blocks until the mutex is free, then owns it.
MutexLock(t, q) ==
  /\ mutex[q] = NoThread
  /\ mutex' = [mutex EXCEPT ![q] = t]

\* An unlock() that leaves the mutex owned.
MutexUnlockKeeps(t, q) ==
  /\ mutex[q] = t
  /\ mutex' = mutex

\* unlock(): the owner releases the mutex.
MutexUnlock(t, q) ==
  /\ mutex[q] = t
  /\ mutex' = [mutex EXCEPT ![q] = NoThread]

\* ------------------------------------------------------------------ Init
Init ==
  /\ data = [q \in Insts |-> << >>]
  /\ mutex = [q \in Insts |-> NoThread]
  /\ alive = [q \in Insts |-> q = "A"]
  /\ pc = [t \in Threads |-> "idle"]
  /\ call = [t \in Threads |-> NoCall]
  /\ loc = [t \in Threads |-> 0]
  /\ ret = [t \in Threads |-> NoRet]
  /\ abs = [q \in Insts |-> << >>]
  /\ recv = [v \in Elems |-> 0]
  /\ npush = 0
  /\ log = << >>

\* ---------------------------------------------------------------- calls
\* A thread that is in no call starts one on a constructed instance; the
\* lock_guard of the member function is constructed first.
Enter(t, c) ==
  /\ pc[t] = "idle"
  /\ alive[c.q]
  /\ pc' = [pc EXCEPT ![t] = "lock"]
  /\ call' = [call EXCEPT ![t] = c]
  /\ UNCHANGED <<data, mutex, alive, loc, ret, abs, recv, log>>

CallPush(t, q, v) == Enter(t, MkCall("push", q, q, v)) /\ npush' = npush + 1
CallPop(t, q) == Enter(t, MkCall("pop", q, q, 0)) /\ UNCHANGED npush
CallSteal(t, q) == Enter(t, MkCall("steal", q, q, 0)) /\ UNCHANGED npush
CallEmpty(t, q) == Enter(t, MkCall("empty", q, q, 0)) /\ UNCHANGED npush
CallSize(t, q) == Enter(t, MkCall("size", q, q, 0)) /\ UNCHANGED npush
CallClear(t, q) == Enter(t, MkCall("clear", q, q, 0)) /\ UNCHANGED npush

\* The first statement of the body of each member function.
Body(op) ==
  CASE op = "push" -> "push_emplace"
    [] op = "pop" -> "pop_check"
    [] op = "steal" -> "steal_check"
    [] op = "empty" -> "empty_read"
    [] op = "size" -> "size_read"
    [] op = "clear" -> "clear_clear"

\* A lock_guard that waits until the guards of all instances are free.
LockGuardAll(t) ==
  /\ pc[t] = "lock"
  /\ \A q \in Insts : mutex[q] = NoThread
  /\ MutexLock(t, call[t].q)
  /\ pc' = [pc EXCEPT ![t] = Body(call[t].op)]
  /\ UNCHANGED <<data, alive, call, loc, ret, abs, recv, npush, log>>

\* std::lock_guard lock(mutex_);
LockGuard(t) ==
  /\ pc[t] = "lock"
  /\ MutexLock(t, call[t].q)
  /\ pc' = [pc EXCEPT ![t] = Body(call[t].op)]
  /\ UNCHANGED <<data, alive, call, loc, ret, abs, recv, npush, log>>

\* One statement of a body: the sequence of this becomes d, the result r.
Stmt(t, at, next, d, r) ==
  /\ pc[t] = at
  /\ pc' = [pc EXCEPT ![t] = next]
  /\ data' = [data EXCEPT ![call[t].q] = d]
  /\ ret' = [ret EXCEPT ![t] = r]
  /\ UNCHANGED <<mutex, alive, call, loc, abs, recv, npush, log>>

\* data_.emplace_back(std::move(value));
PushEmplace(t) ==
  Stmt(t, "push_emplace", "unlock",
       EmplaceBack(data[call[t].q], call[t].arg), Void)

\* A pop that returns a value-initialized element when there is none.
PopCheckDefault(t) ==
  IF VecEmpty(data[call[t].q])
  THEN Stmt(t, "pop_check", "unlock", data[call[t].q], Some(0))
  ELSE Stmt(t, "pop_check", "pop_front", data[call[t].q], ret[t])

\* A pop that waits, holding the guard, until there is an element.
PopCheckWaits(t) ==
  /\ ~VecEmpty(data[call[t].q])
  /\ Stmt(t, "pop_check", "pop_front", data[call[t].q], ret[t])

\* if (data_.empty()) return std::nullopt;
PopCheck(t) ==
  IF VecEmpty(data[call[t].q])
  THEN Stmt(t, "pop_check", "unlock", data[call[t].q], Nullopt)
  ELSE Stmt(t, "pop_check", "pop_front", data[call[t].q], ret[t])

\* A pop that takes the element at the back.
PopFrontTakesBack(t) ==
  Stmt(t, "pop_front", "pop_erase",
       data[call[t].q], Some(Back(data[call[t].q])))

\* std::optional<T> front(std::move(data_.front()));
PopFront(t) ==
  Stmt(t, "pop_front", "pop_erase",
       data[call[t].q], Some(Front(data[call[t].q])))

\* A pop that forgets to erase the element it returns.
PopEraseKeeps(t) ==
  Stmt(t, "pop_erase", "unlock", data[call[t].q], ret[t])

\* data_.erase(data_.begin());
PopErase(t) ==
  Stmt(t, "pop_erase", "unlock", EraseBegin(data[call[t].q]), ret[t])

\* if (data_.empty()) return std::nullopt;
StealCheck(t) ==
  IF VecEmpty(data[call[t].q])
  THEN Stmt(t, "steal_check", "unlock", data[call[t].q], Nullopt)
  ELSE Stmt(t, "steal_check", "steal_back", data[call[t].q], ret[t])

\* A steal that takes the element at the front.
StealBackTakesFront(t) ==
  Stmt(t, "steal_back", "steal_pop",
       data[call[t].q], Some(Front(data[call[t].q])))

\* std::optional<T> back(std::move(data_.back()));
StealBack(t) ==
  Stmt(t, "steal_back", "steal_pop",
       data[call[t].q], Some(Back(data[call[t].q])))

\* A steal that returns the back element and removes the front one.
StealPopBackErasesFront(t) ==
  Stmt(t, "steal_pop", "unlock", EraseBegin(data[call[t].q]), ret[t])

\* data_.pop_back();
StealPopBack(t) ==
  Stmt(t, "steal_pop", "unlock", PopBack(data[call[t].q]), ret[t])

\* bool is_empty = data_.empty();
EmptyRead(t) ==
  Stmt(t, "empty_read", "unlock",
       data[call[t].q], Bool(VecEmpty(data[call[t].q])))

\* A size that counts one element too many.
SizeReadOneMore(t) ==
  Stmt(t, "size_read", "unlock",
       data[call[t].q], Size(VecSize(data[call[t].q]) + 1))

\* size_type sz = data_.size();
SizeRead(t) ==
  Stmt(t, "size_read", "unlock",
       data[call[t].q], Size(VecSize(data[call[t].q])))

\* A clear that removes the back element only.
ClearClearPartial(t) ==
  Stmt(t, "clear_clear", "unlock", PopBack(data[call[t].q]), Void)

\* data_.clear();
ClearClear(t) ==
  Stmt(t, "clear_clear", "unlock", VecClear(data[call[t].q]), Void)

\* What the caller of a finished call has got.
Received(r) == [v \in Elems |-> IF r = Some(v) THEN recv[v] + 1 ELSE recv[v]]
Entry(c, r, d) == [op |-> c.op, q |-> c.q, other |-> c.other, arg |-> c.arg,
                   ret |-> r, emp |-> VecEmpty(d)]

\* The return: the lock_guard is destroyed, the guard released, and the
\* caller has the result.  record says whether the call is written to log.
Return(t, record) ==
  /\ pc[t] = "unlock"
  /\ MutexUnlock(t, call[t].q)
  /\ pc' = [pc EXCEPT ![t] = "idle"]
  /\ abs' = [abs EXCEPT ![call[t].q] = data[call[t].q]]
  /\ recv' = Received(ret[t])
  /\ log' = IF record
            THEN Append(log, Entry(call[t], ret[t], abs[call[t].q]))
            ELSE log
  /\ call' = [call EXCEPT ![t] = NoCall]
  /\ ret' = [ret EXCEPT ![t] = NoRet]
  /\ UNCHANGED <<data, alive, loc, npush>>

\* ------------------------------------------------------------ the moves
\* SpxQueue() = default: the members' initializers give an empty vector and
\* a free mutex.
Construct(q) ==
  /\ ~alive[q]
  /\ \A t \in Threads : ~(call[t].op = "move_ctor" /\ call[t].q = q)
  /\ alive' = [alive EXCEPT ![q] = TRUE]
  /\ data' = [data EXCEPT ![q] = << >>]
  /\ mutex' = [mutex EXCEPT ![q] = NoThread]
  /\ abs' = [abs EXCEPT ![q] = << >>]
  /\ UNCHANGED <<pc, call, loc, ret, recv, npush, log>>

\* SpxQueue(SpxQueue&& other): q is the object under construction, which no
\* other thread can name before the constructor returns.
CallMoveCtor(t, q, o) ==
  /\ pc[t] = "idle"
  /\ ~alive[q]
  /\ alive[o]
  /\ \A u \in Threads : ~(call[u].op = "move_ctor" /\ call[u].q = q)
  /\ pc' = [pc EXCEPT ![t] = "mv_lock"]
  /\ call' = [call EXCEPT ![t] = MkCall("move_ctor", q, o, 0)]
  /\ loc' = [loc EXCEPT ![t] = 0]
  /\ UNCHANGED <<data, mutex, alive, ret, abs, recv, npush, log>>

\* operator=(SpxQueue&& other), other possibly this itself.
CallMoveAssign(t, q, o) ==
  /\ pc[t] = "idle"
  /\ alive[q]
  /\ alive[o]
  /\ pc' = [pc EXCEPT ![t] = "mv_check"]
  /\ call' = [call EXCEPT ![t] = MkCall("move_assign", q, o, 0)]
  /\ UNCHANGED <<data, mutex, alive, loc, ret, abs, recv, npush, log>>

\* A move assignment without the test for self-assignment.
MoveCheckNoTest(t, record) ==
  /\ pc[t] = "mv_check"
  /\ pc' = [pc EXCEPT ![t] = "mv_lock"]
  /\ loc' = [loc EXCEPT ![t] = 0]
  /\ UNCHANGED <<data, mutex, alive, call, ret, abs, recv, npush, log>>

\* if (this != &other) { ... } return *this;
MoveCheck(t, record) ==
  /\ pc[t] = "mv_check"
  /\ IF call[t].q # call[t].other
     THEN /\ pc' = [pc EXCEPT ![t] = "mv_lock"]
          /\ loc' = [loc EXCEPT ![t] = 0]
          /\ UNCHANGED <<call, log>>
     ELSE /\ pc' = [pc EXCEPT ![t] = "idle"]
          /\ call' = [call EXCEPT ![t] = NoCall]
          /\ log' = IF record
                    THEN Append(log, Entry(call[t], Void, abs[call[t].q]))
                    ELSE log
          /\ UNCHANGED loc
  /\ UNCHANGED <<data, mutex, alive, ret, abs, recv, npush>>

\* std::lock(lock, other_lock) takes the two unique_locks in this order:
\* index 0 is lock (this->mutex_), index 1 is other_lock (other.mutex_).
LockOf(c, i) == IF i = 0 THEN c.q ELSE c.other

\* std::lock: block on the lock at index loc[t] ...
StdLockFirst(t) ==
  /\ pc[t] = "mv_lock"
  /\ MutexLock(t, LockOf(call[t], loc[t]))
  /\ pc' = [pc EXCEPT ![t] = "mv_try"]
  /\ UNCHANGED <<data, alive, call, loc, ret, abs, recv, npush, log>>

\* Locking one after the other: a blocking lock() of the second lock.
StdLockTryBlocks(t) ==
  /\ pc[t] = "mv_try"
  /\ MutexLock(t, LockOf(call[t], 1 - loc[t]))
  /\ pc' = [pc EXCEPT ![t] = "mv_data"]
  /\ UNCHANGED <<data, alive, call, loc, ret, abs, recv, npush, log>>

\* A std::lock that goes on with the first lock only.
StdLockTryOneOnly(t) ==
  /\ pc[t] = "mv_try"
  /\ pc' = [pc EXCEPT ![t] = "mv_data"]
  /\ UNCHANGED <<data, mutex, alive, call, loc, ret, abs, recv, npush, log>>

\* ... then try_lock the other one: owning both, std::lock returns ...
StdLockTry(t) ==
  /\ pc[t] = "mv_try"
  /\ IF mutex[LockOf(call[t], 1 - loc[t])] = NoThread
     THEN /\ mutex' = [mutex EXCEPT ![LockOf(call[t], 1 - loc[t])] = t]
          /\ pc' = [pc EXCEPT ![t] = "mv_data"]
     ELSE /\ pc' = [pc EXCEPT ![t] = "mv_backoff"]
          /\ UNCHANGED mutex
  /\ UNCHANGED <<data, alive, call, loc, ret, abs, recv, npush, log>>

\* ... and when try_lock failed, release the lock held and start again,
\* blocking on the lock that was busy.
StdLockBackoff(t) ==
  /\ pc[t] = "mv_backoff"
  /\ MutexUnlock(t, LockOf(call[t], loc[t]))
  /\ loc' = [loc EXCEPT ![t] = 1 - loc[t]]
  /\ pc' = [pc EXCEPT ![t] = "mv_lock"]
  /\ UNCHANGED <<data, alive, call, ret, abs, recv, npush, log>>

\* A move that copies: the vector of other is left as it was.
MoveDataCopies(t) ==
  /\ pc[t] = "mv_data"
  /\ data' = [data EXCEPT ![call[t].q] = data[call[t].other]]
  /\ ret' = [ret EXCEPT ![t] = Void]
  /\ pc' = [pc EXCEPT ![t] = "mv_unlock_other"]
  /\ UNCHANGED <<mutex, alive, call, loc, abs, recv, npush, log>>

\* data_ = std::move(other.data_): this takes the vector of other, whose
\* own vector is left empty.
MoveData(t) ==
  /\ pc[t] = "mv_data"
  /\ data' = [data EXCEPT ![call[t].q] = data[call[t].other],
                          ![call[t].other] = << >>]
  /\ ret' = [ret EXCEPT ![t] = Void]
  /\ pc' = [pc EXCEPT ![t] = "mv_unlock_other"]
  /\ UNCHANGED <<mutex, alive, call, loc, abs, recv, npush, log>>

\* A move that forgets to release the guard of other.
MoveUnlockOtherSkips(t) ==
  /\ pc[t] = "mv_unlock_other"
  /\ abs' = [abs EXCEPT ![call[t].other] = data[call[t].other]]
  /\ pc' = [pc EXCEPT ![t] = "mv_unlock_this"]
  /\ UNCHANGED <<data, mutex, alive, call, loc, ret, recv, npush, log>>

\* The unique_locks are destroyed in reverse order: other_lock first ...
MoveUnlockOther(t) ==
  /\ pc[t] = "mv_unlock_other"
  /\ MutexUnlock(t, call[t].other)
  /\ abs' = [abs EXCEPT ![call[t].other] = data[call[t].other]]
  /\ pc' = [pc EXCEPT ![t] = "mv_unlock_this"]
  /\ UNCHANGED <<data, alive, call, loc, ret, recv, npush, log>>

\* ... then lock, and the move returns; a constructed object is now visible.
MoveReturn(t, record) ==
  /\ pc[t] = "mv_unlock_this"
  /\ MutexUnlock(t, call[t].q)
  /\ alive' = [alive EXCEPT ![call[t].q] = TRUE]
  /\ pc' = [pc EXCEPT ![t] = "idle"]
  /\ abs' = [abs EXCEPT ![call[t].q] = data[call[t].q]]
  /\ log' = IF record
            THEN Append(log, Entry(call[t], ret[t], abs[call[t].q]))
            ELSE log
  /\ call' = [call EXCEPT ![t] = NoCall]
  /\ ret' = [ret EXCEPT ![t] = NoRet]
  /\ UNCHANGED <<data, loc, recv, npush>>

\* ------------------------------------------------------- specifications
\* The statements of pop and of steal.
PopStep(t) == PopCheck(t) \/ PopFront(t) \/ PopErase(t)
StealStep(t) == StealCheck(t) \/ StealBack(t) \/ StealPopBack(t)

\* The statements of the bodies of push, pop, steal, empty, size and clear.
Step(t) ==
  \/ LockGuard(t)
  \/ PushEmplace(t)
  \/ PopStep(t)
  \/ StealStep(t)
  \/ EmptyRead(t)
  \/ SizeRead(t)
  \/ ClearClear(t)

\* The statements of the move constructor and of the move assignment.
MoveStep(t) ==
  \/ StdLockFirst(t)
  \/ StdLockTry(t)
  \/ StdLockBackoff(t)
  \/ MoveData(t)
  \/ MoveUnlockOther(t)

\* Every operation: push, pop, steal, empty, size and clear on A, moves
\* between A and B in both directions, B constructed empty or from A.
\* Every pushed element carries a fresh tag.
Next ==
  \/ \E t \in Threads : npush < MaxPush /\ CallPush(t, "A", npush + 1)
  \/ \E t \in Threads : CallPop(t, "A")
  \/ \E t \in Threads : CallSteal(t, "A")
  \/ \E t \in Threads : CallEmpty(t, "A")
  \/ \E t \in Threads : CallSize(t, "A")
  \/ \E t \in Threads : CallClear(t, "A")
  \/ \E q \in Insts : Construct(q)
  \/ \E t \in Threads, q \in Insts, o \in Insts : CallMoveCtor(t, q, o)
  \/ \E t \in Threads, q \in Insts, o \in Insts : CallMoveAssign(t, q, o)
  \/ \E t \in Threads : MoveCheck(t, FALSE)
  \/ \E t \in Threads : Step(t)
  \/ \E t \in Threads : MoveStep(t)
  \/ \E t \in Threads : Return(t, FALSE)
  \/ \E t \in Threads : MoveReturn(t, FALSE)

Spec == Init /\ [][Next]_vars

\* Threads calling push, pop, steal, empty, size and clear on one instance.
QueueNext ==
  \/ \E t \in Threads : npush < MaxTag /\ CallPush(t, "A", npush + 1)
  \/ \E t \in Threads : CallPop(t, "A")
  \/ \E t \in Threads : CallSteal(t, "A")
  \/ \E t \in Threads : CallEmpty(t, "A")
  \/ \E t \in Threads : CallSize(t, "A")
  \/ \E t \in Threads : CallClear(t, "A")
  \/ \E t \in Threads : Step(t)
  \/ \E t \in Threads : Return(t, FALSE)

QueueSpec == Init /\ [][QueueNext]_vars

\* Producers and consumers: push of uniquely tagged elements, pop and steal
\* on one instance, no clear and no move.
StressNext ==
  \/ \E t \in Threads : npush < MaxTag /\ CallPush(t, "A", npush + 1)
  \/ \E t \in Threads : CallPop(t, "A")
  \/ \E t \in Threads : CallSteal(t, "A")
  \/ \E t \in Threads : LockGuard(t)
  \/ \E t \in Threads : PushEmplace(t)
  \/ \E t \in Threads : PopStep(t)
  \/ \E t \in Threads : StealStep(t)
  \/ \E t \in Threads : Return(t, FALSE)

StressSpec == Init /\ [][StressNext]_vars

\* One thread calling push (any value), pop and steal, one call after the
\* other; every call is recorded in log.
SeqNext ==
  \/ \E v \in Vals : Len(log) < MaxLog /\ CallPush(Caller, "A", v)
  \/ Len(log) < MaxLog /\ CallPop(Caller, "A")
  \/ Len(log) < MaxLog /\ CallSteal(Caller, "A")
  \/ LockGuard(Caller)
  \/ PushEmplace(Caller)
  \/ PopStep(Caller)
  \/ StealStep(Caller)
  \/ Return(Caller, TRUE)

SeqSpec == Init /\ [][SeqNext]_vars

\* The states the move runs start in: A holds the tags 1..k and B, when it
\* has been constructed, the next m tags.
TagSeq(lo, n) == [i \in 1 .. n |-> lo + i - 1]

MoveInit(k, m, b) ==
  /\ data = [q \in Insts |-> IF q = "A" THEN TagSeq(1, k) ELSE TagSeq(k + 1, m)]
  /\ mutex = [q \in Insts |-> NoThread]
  /\ alive = [q \in Insts |-> q = "A" \/ b]
  /\ loc = [t \in Threads |-> 0]
  /\ ret = [t \in Threads |-> NoRet]
  /\ abs = data
  /\ recv = [v \in Elems |-> 0]
  /\ npush = k + m
  /\ log = << >>

\* One thread moving A and B into each other and calling pop, steal, empty
\* and size in between; the moves are recorded in log.  Alone, the thread
\* never finds the second lock of std::lock busy.
MoveSeqInit ==
  \E k \in 0 .. MaxLen, m \in 0 .. MaxLen, b \in BOOLEAN :
    /\ b \/ m = 0
    /\ MoveInit(k, m, b)
    /\ pc = [t \in Threads |-> "idle"]
    /\ call = [t \in Threads |-> NoCall]

MoveSeqNext ==
  \/ \E q \in Insts, o \in Insts :
       Len(log) < MaxMoves /\ q # o /\ CallMoveCtor(Caller, q, o)
  \/ \E q \in Insts, o \in Insts :
       Len(log) < MaxMoves /\ q # o /\ CallMoveAssign(Caller, q, o)
  \/ \E q \in Insts : CallPop(Caller, q)
  \/ \E q \in Insts : CallSteal(Caller, q)
  \/ \E q \in Insts : CallEmpty(Caller, q)
  \/ \E q \in Insts : CallSize(Caller, q)
  \/ MoveCheck(Caller, TRUE)
  \/ LockGuard(Caller)
  \/ PopStep(Caller)
  \/ StealStep(Caller)
  \/ EmptyRead(Caller)
  \/ SizeRead(Caller)
  \/ StdLockFirst(Caller)
  \/ StdLockTry(Caller)
  \/ MoveData(Caller)
  \/ MoveUnlockOther(Caller)
  \/ Return(Caller, FALSE)
  \/ MoveReturn(Caller, TRUE)

MoveSeqSpec == MoveSeqInit /\ [][MoveSeqNext]_vars

\* Every thread is in a move assignment of one instance from the other,
\* each in the direction it likes, all at the same time.
MoveAssigns == {MkCall("move_assign", q, o, 0) : q \in Insts, o \in Insts}

MovesInit ==
  /\ \E k \in 0 .. MaxLen, m \in 0 .. MaxLen : MoveInit(k, m, TRUE)
  /\ pc = [t \in Threads |-> "mv_check"]
  /\ call \in [Threads -> {c \in MoveAssigns : c.q # c.other}]

MovesNext ==
  \/ \E t \in Threads : MoveCheck(t, FALSE)
  \/ \E t \in Threads : MoveStep(t)
  \/ \E t \in Threads : MoveReturn(t, FALSE)

\* The scheduler lets every thread that can take a step take one in the end.
MovesFair ==
  /\ \A t \in Threads : WF_vars(MoveCheck(t, FALSE))
  /\ \A t \in Threads : WF_vars(MoveStep(t))
  /\ \A t \in Threads : WF_vars(MoveReturn(t, FALSE))

MovesSpec == MovesInit /\ [][MovesNext]_vars /\ MovesFair

\* ================================================================ claims
Count(d, v) == Cardinality({i \in 1 .. Len(d) : d[i] = v})
Holders(v) == {t \in Threads : pc[t] = "unlock" /\ ret[t] = Some(v)}
AllIdle == \A t \in Threads : pc[t] = "idle"

\* C1: exactly-once delivery under concurrency.  With threads pushing
\* uniquely tagged elements and popping and stealing concurrently, no tag is
\* ever returned to two callers, nothing but a pushed tag is returned, and
\* once no call is in progress and the instance is empty, every pushed tag
\* has been returned exactly once.
C1_ExactlyOnce ==
  /\ \A v \in Elems : recv[v] + Cardinality(Holders(v)) <= 1
  /\ \A v \in Elems : v > npush => recv[v] = 0
  /\ (AllIdle /\ data["A"] = << >>) => \A v \in 1 .. npush : recv[v] = 1

C1_Witness ==
  /\ AllIdle
  /\ data["A"] = << >>
  /\ npush = MaxTag
  /\ \A v \in 1 .. npush : recv[v] = 1

\* The statements in which a thread reads or writes the sequence of q, and
\* the critical section around them.
BodyPcs == {"push_emplace", "pop_check", "pop_front", "pop_erase",
            "steal_check", "steal_back", "steal_pop",
            "empty_read", "size_read", "clear_clear"}
Touches(t, q) ==
  \/ pc[t] \in BodyPcs /\ call[t].q = q
  \/ pc[t] = "mv_data" /\ q \in {call[t].q, call[t].other}
InCritical(t, q) ==
  \/ Touches(t, q)
  \/ pc[t] = "unlock" /\ call[t].q = q
  \/ pc[t] = "mv_unlock_other" /\ q \in {call[t].q, call[t].other}
  \/ pc[t] = "mv_unlock_this" /\ call[t].q = q

\* C2: mutual exclusion.  A thread inside the critical section of any
\* operation on an instance holds the guard of that instance, so no two
\* threads are inside critical sections on the same instance, and every
\* statement that reads or writes a sequence runs under its guard.
C2_MutualExclusion ==
  /\ \A t \in Threads, q \in Insts : InCritical(t, q) => mutex[q] = t
  /\ \A t \in Threads, u \in Threads, q \in Insts :
       t # u => ~(InCritical(t, q) /\ InCritical(u, q))

C2_Witness ==
  \E t \in Threads, u \in Threads :
    /\ pc[t] = "mv_data"
    /\ pc[u] = "lock"
    /\ call[u].q \in {call[t].q, call[t].other}

\* The calls log[i] .. log[i+n-1] are n pushes p1..pn, the first of them
\* into an empty instance; Pushed(i, j) is pj.
PushRun(i, n) ==
  /\ n >= 1
  /\ i + n - 1 <= Len(log)
  /\ log[i].op = "push"
  /\ log[i].emp
  /\ \A j \in i .. i + n - 1 : log[j].op = "push"
Pushed(i, j) == log[i + j - 1].arg

\* The m calls that follow such a run are all among ops; After(i, n, j) is
\* the j-th of them.
Followed(i, n, m, ops) ==
  /\ i + n + m - 1 <= Len(log)
  /\ \A j \in 1 .. m : log[i + n + j - 1].op \in ops
After(i, n, j) == log[i + n + j - 1]
NumOf(i, n, j, op) == Cardinality({x \in 1 .. j : After(i, n, x).op = op})

\* C3: FIFO.  After pushes p1..pn into an empty instance with no pop or
\* steal in between, the pops that follow return p1, p2, ... in that order.
C3_Fifo ==
  \A i \in 1 .. Len(log) : \A n \in 1 .. Len(log) - i + 1 :
    PushRun(i, n) => \A k \in 1 .. n :
      Followed(i, n, k, {"pop"})
        => \A j \in 1 .. k : After(i, n, j).ret = Some(Pushed(i, j))

C3_Witness ==
  /\ PushRun(1, 3)
  /\ Followed(1, 3, 3, {"pop"})
  /\ Pushed(1, 1) = Pushed(1, 3)
  /\ Pushed(1, 1) # Pushed(1, 2)

\* C4: LIFO steal.  After pushes p1..pn into an empty instance with no pop
\* in between, the steals that follow return pn, pn-1, ... in that order.
C4_LifoSteal ==
  \A i \in 1 .. Len(log) : \A n \in 1 .. Len(log) - i + 1 :
    PushRun(i, n) => \A k \in 1 .. n :
      Followed(i, n, k, {"steal"})
        => \A j \in 1 .. k : After(i, n, j).ret = Some(Pushed(i, n - j + 1))

C4_Witness ==
  /\ PushRun(1, 3)
  /\ Followed(1, 3, 3, {"steal"})
  /\ Pushed(1, 1) # Pushed(1, 3)

\* C5: mixed-end disjointness.  After pushes p1..pn into an empty instance,
\* in any interleaving of at most n pops and steals no call returns absent,
\* the a-th pop returns pa and the b-th steal returns p(n-b+1); when the n
\* calls have drained the instance, the pops have returned p1..pk, the
\* steals pn..pk+1, and so every pi has been returned exactly once.
C5_MixedEnds ==
  \A i \in 1 .. Len(log) : \A n \in 1 .. Len(log) - i + 1 :
    PushRun(i, n) => \A m \in 1 .. n :
      Followed(i, n, m, {"pop", "steal"})
        => \A j \in 1 .. m :
             After(i, n, j).ret =
               IF After(i, n, j).op = "pop"
               THEN Some(Pushed(i, NumOf(i, n, j, "pop")))
               ELSE Some(Pushed(i, n - NumOf(i, n, j, "steal") + 1))

C5_Witness ==
  /\ PushRun(1, 3)
  /\ Followed(1, 3, 3, {"pop", "steal"})
  /\ After(1, 3, 1).op = "steal"
  /\ After(1, 3, 2).op = "pop"
  /\ After(1, 3, 3).op = "steal"
  /\ Pushed(1, 1) # Pushed(1, 2)

\* What pop, steal, empty and size return on an instance that looks empty.
LooksEmpty(op, r) ==
  CASE op = "pop" -> r = Nullopt
    [] op = "steal" -> r = Nullopt
    [] op = "empty" -> r = Bool(TRUE)
    [] op = "size" -> r = Size(0)
    [] OTHER -> TRUE

\* The last move that returned took the sequence of q away.
MovedFrom(q) ==
  /\ Len(log) > 0
  /\ log[Len(log)].op \in {"move_ctor", "move_assign"}
  /\ log[Len(log)].other = q
  /\ log[Len(log)].q # q

\* C6: move transfers exactly once.  When B is move-constructed or
\* move-assigned from a distinct instance A, then once the transfer is done B
\* holds the elements A held before the move, in their order, whatever B held
\* before, and A holds none; no element is in both instances; and the calls
\* on A that follow see it empty: empty() is true, size() is 0, pop() and
\* steal() return absent.
C6_MoveOnce ==
  /\ \A t \in Threads :
       pc[t] = "mv_unlock_other"
         => /\ data[call[t].q] = abs[call[t].other]
            /\ data[call[t].other] = << >>
  /\ \A v \in Elems : Count(data["A"], v) + Count(data["B"], v) <= 1
  /\ \A t \in Threads :
       (pc[t] = "unlock" /\ MovedFrom(call[t].q))
         => LooksEmpty(call[t].op, ret[t]) /\ data[call[t].q] = << >>

C6_Witness ==
  /\ pc[Caller] = "unlock"
  /\ call[Caller].op = "pop"
  /\ call[Caller].q = "A"
  /\ MovedFrom("A")
  /\ log[Len(log)].op = "move_assign"
  /\ ~log[Len(log)].emp
  /\ Len(data["B"]) = MaxLen
  /\ ret[Caller] = Nullopt

\* Some thread that is in a move can take its next step.
MoveCanStep ==
  \E t \in Threads :
    ENABLED (MoveCheck(t, FALSE) \/ MoveStep(t) \/ MoveReturn(t, FALSE))
GuardsFree == \A q \in Insts : mutex[q] = NoThread

\* C7 as stated: with threads move-assigning A into B and B into A at the
\* same time, no state has the threads waiting on each other, and in the end
\* every move has returned and both guards are free.
C7_MovesComplete ==
  /\ [](AllIdle \/ MoveCanStep)
  /\ <>[](AllIdle /\ GuardsFree)

\* C7, amended: deadlock freedom of moves.  While a move is in progress some
\* thread can take a step; a thread whose try_lock failed gives up the guard
\* it owns before it waits for the other one; a thread that owns both guards
\* completes its move; and when no move is in progress both guards are free.
C7_NoDeadlock ==
  /\ [](AllIdle \/ MoveCanStep)
  /\ [](AllIdle => GuardsFree)
  /\ \A t \in Threads :
       (pc[t] = "mv_backoff") ~> (\A q \in Insts : mutex[q] # t)
  /\ \A t \in Threads : (pc[t] = "mv_data") ~> (pc[t] = "idle")

\* Two threads moving in opposite directions, each owning the guard the
\* other needs.
C7_Witness ==
  \E t \in Threads, u \in Threads :
    /\ pc[t] = "mv_try"
    /\ pc[u] = "mv_try"
    /\ call[t].q = call[u].other
    /\ call[t].other = call[u].q
    /\ mutex[call[t].q] = t
    /\ mutex[call[u].q] = u

\* The sequential deque: what a call does to the sequence s, and returns,
\* when it runs alone and all at once.
DequeNext(c, s) ==
  CASE c.op = "push" -> s \o <<c.arg>>
    [] c.op = "pop" -> IF s = << >> THEN s ELSE Tail(s)
    [] c.op = "steal" -> IF s = << >> THEN s ELSE SubSeq(s, 1, Len(s) - 1)
    [] c.op = "clear" -> << >>
    [] OTHER -> s
DequeRet(c, s) ==
  CASE c.op = "pop" -> IF s = << >> THEN Nullopt ELSE Some(Head(s))
    [] c.op = "steal" -> IF s = << >> THEN Nullopt ELSE Some(s[Len(s)])
    [] c.op = "empty" -> Bool(s = << >>)
    [] c.op = "size" -> Size(Len(s))
    [] OTHER -> Void

\* C8: linearizability.  abs[q] is the sequence the calls that have returned
\* have built, one after the other in the order they held the guard.  A call
\* that takes the guard finds exactly that sequence (nothing of a call in
\* progress is visible to it), and when its body is done the sequence and
\* the result are those of the sequential deque operation applied to it.
C8_Linearizable ==
  /\ \A q \in Insts : mutex[q] = NoThread => data[q] = abs[q]
  /\ \A t \in Threads :
       pc[t] \in {Body(op) : op \in {"push", "pop", "steal", "empty", "size", "clear"}}
         => data[call[t].q] = abs[call[t].q]
  /\ \A t \in Threads :
       pc[t] = "unlock"
         => /\ data[call[t].q] = DequeNext(call[t], abs[call[t].q])
            /\ ret[t] = DequeRet(call[t], abs[call[t].q])

\* A steal has taken the back of a sequence of two while another thread
\* waits for the guard.
C8_Witness ==
  \E t \in Threads, u \in Threads :
    /\ pc[t] = "unlock"
    /\ call[t].op = "steal"
    /\ Len(abs["A"]) = 2
    /\ ret[t] = Some(abs["A"][2])
    /\ pc[u] = "lock"

\* C9: empty-on-empty.  On an instance whose sequence is empty when the call
\* takes the guard (newly constructed, or drained by pop, steal or clear),
\* pop() and steal() return absent, empty() returns true, size() returns 0,
\* the sequence is still empty, and the call goes on to its return.
C9_EmptyOnEmpty ==
  \A t \in Threads :
    (pc[t] \in {"unlock", "pop_front", "steal_back"} /\ abs[call[t].q] = << >>)
      => /\ pc[t] = "unlock"
         /\ call[t].op \in {"pop", "steal", "empty", "size"}
              => LooksEmpty(call[t].op, ret[t]) /\ data[call[t].q] = << >>

\* A pop finds the instance drained after every push has been made.
C9_Witness ==
  \E t \in Threads :
    /\ pc[t] = "unlock"
    /\ call[t].op = "pop"
    /\ ret[t] = Nullopt
    /\ npush = MaxTag
    /\ \E v \in Elems : recv[v] = 1

\* C10: push appends at the back.  When the body of push(value) is done, the
\* sequence is the sequence the call found followed by value: one longer,
\* the elements it found at their positions; push returns nothing, and it
\* gets there whatever the length it found.
C10_PushAppends ==
  \A t \in Threads :
    (pc[t] = "unlock" /\ call[t].op = "push")
      => /\ Len(data[call[t].q]) = Len(abs[call[t].q]) + 1
         /\ \A i \in 1 .. Len(abs[call[t].q]) :
              data[call[t].q][i] = abs[call[t].q][i]
         /\ data[call[t].q][Len(data[call[t].q])] = call[t].arg
         /\ ret[t] = Void

\* A push onto a sequence that already holds two elements.
C10_Witness ==
  \E t \in Threads :
    /\ pc[t] = "unlock"
    /\ call[t].op = "push"
    /\ Len(abs["A"]) = 2
    /\ Len(data["A"]) = 3

\* ============================================== specifications, continued
\* One thread calling push, pop, empty, size and clear, one call after the
\* other; every call is recorded in log.
ClearSeqNext ==
  \/ \E v \in Vals : Len(log) < MaxCalls /\ CallPush(Caller, "A", v)
  \/ Len(log) < MaxCalls /\ CallPop(Caller, "A")
  \/ Len(log) < MaxCalls /\ CallEmpty(Caller, "A")
  \/ Len(log) < MaxCalls /\ CallSize(Caller, "A")
  \/ Len(log) < MaxCalls /\ CallClear(Caller, "A")
  \/ LockGuard(Caller)
  \/ PushEmplace(Caller)
  \/ PopStep(Caller)
  \/ EmptyRead(Caller)
  \/ SizeRead(Caller)
  \/ ClearClear(Caller)
  \/ Return(Caller, TRUE)

ClearSeqSpec == Init /\ [][ClearSeqNext]_vars

\* The sequence the sequential deque holds after the first n calls of l.
RECURSIVE ReplayState(_, _)
ReplayState(l, n) ==
  IF n = 0 THEN << >> ELSE DequeNext(l[n], ReplayState(l, n - 1))

\* The recorded calls without the clear() calls made on an empty instance.
NotEmptyClear(e) == ~(e.op = "clear" /\ e.emp)
Elided == SelectSeq(log, NotEmptyClear)

\* C11: clear idempotence.  When the body of clear() is done the sequence is
\* empty, and it is the sequence the call found when that was empty already;
\* the call right after a clear() finds the sequence empty, so a second
\* clear() changes nothing and size() returns 0 whatever was held before; and
\* a clear() on an empty instance cannot be observed: every recorded call
\* returns what it returns in the run without those clear() calls.
C11_ClearIdempotent ==
  /\ \A t \in Threads :
       (pc[t] = "unlock" /\ call[t].op = "clear")
         => /\ data[call[t].q] = << >>
            /\ ret[t] = Void
            /\ abs[call[t].q] = << >> => data[call[t].q] = abs[call[t].q]
  /\ \A i \in 1 .. Len(log) - 1 :
       log[i].op = "clear"
         => /\ log[i + 1].emp
            /\ LooksEmpty(log[i + 1].op, log[i + 1].ret)
  /\ \A j \in 1 .. Len(Elided) :
       /\ Elided[j].ret = DequeRet(Elided[j], ReplayState(Elided, j - 1))
       /\ Elided[j].emp = (ReplayState(Elided, j - 1) = << >>)

\* push, clear, clear, size: the second clear finds the instance empty and
\* size returns 0.
C11_Witness ==
  /\ Len(log) = 4
  /\ log[1].op = "push"
  /\ log[2].op = "clear" /\ ~log[2].emp
  /\ log[3].op = "clear" /\ log[3].emp
  /\ log[4].op = "size" /\ log[4].ret = Size(0)

\* Consumers only: threads calling pop and steal on an instance that holds
\* the tags 1..k when the run starts (none when k = 0) and is never pushed to.
ConsumeInit ==
  /\ \E k \in 0 .. MaxLen : MoveInit(k, 0, FALSE)
  /\ pc = [t \in Threads |-> "idle"]
  /\ call = [t \in Threads |-> NoCall]

ConsumeNext ==
  \/ \E t \in Threads : CallPop(t, "A")
  \/ \E t \in Threads : CallSteal(t, "A")
  \/ \E t \in Threads : LockGuard(t)
  \/ \E t \in Threads : PopStep(t)
  \/ \E t \in Threads : StealStep(t)
  \/ \E t \in Threads : Return(t, FALSE)

\* The scheduler lets every thread that can take a step take one in the end;
\* nothing is assumed about which waiting thread gets a guard.
ConsumeFair ==
  /\ \A t \in Threads : WF_vars(LockGuard(t))
  /\ \A t \in Threads : WF_vars(PopStep(t) \/ StealStep(t))
  /\ \A t \in Threads : WF_vars(Return(t, FALSE))

ConsumeSpec == ConsumeInit /\ [][ConsumeNext]_vars /\ ConsumeFair

AtCheck(t) == pc[t] \in {"pop_check", "steal_check"}
FoundEmpty(t) == AtCheck(t) /\ VecEmpty(data[call[t].q])
OthersIdle(t) == \A u \in Threads \ {t} : pc[u] = "idle"

\* C12: no operation waits for data.  A pop() or steal() that holds the guard
\* can always take its next step, whatever the sequence holds; on an empty
\* sequence that step goes to the return with an absent result, the guard
\* still held and the sequence untouched; the call then returns and the guard
\* is free of it.  A consumer that no other thread contends with completes
\* its call, on an instance that was never pushed to as on any other.
C12_NoWaitForData ==
  /\ [](\A t \in Threads :
          AtCheck(t) => /\ mutex[call[t].q] = t
                        /\ ENABLED (PopCheck(t) \/ StealCheck(t)))
  /\ [][\A t \in Threads :
          (FoundEmpty(t) /\ pc'[t] # pc[t])
            => /\ pc'[t] = "unlock"
               /\ ret'[t] = Nullopt
               /\ mutex' = mutex
               /\ data' = data]_vars
  /\ \A t \in Threads :
       FoundEmpty(t) ~> (pc[t] = "idle" /\ \A q \in Insts : mutex[q] # t)
  /\ \A t \in Threads :
       (pc[t] = "lock") ~> (pc[t] = "idle" \/ ~OthersIdle(t))

\* A pop on an instance that was never pushed to is about to return absent
\* while another consumer waits for the guard.
C12_Witness ==
  \E t \in Threads, u \in Threads :
    /\ npush = 0
    /\ pc[t] = "unlock"
    /\ call[t].op = "pop"
    /\ ret[t] = Nullopt
    /\ pc[u] = "lock"

\* Contention: threads calling push, pop, steal, empty, size and clear on
\* one instance, as QueueNext with the pushes of the runs that mix every
\* operation.
ContendNext ==
  \/ \E t \in Threads : npush < MaxPush /\ CallPush(t, "A", npush + 1)
  \/ \E t \in Threads : CallPop(t, "A")
  \/ \E t \in Threads : CallSteal(t, "A")
  \/ \E t \in Threads : CallEmpty(t, "A")
  \/ \E t \in Threads : CallSize(t, "A")
  \/ \E t \in Threads : CallClear(t, "A")
  \/ \E t \in Threads : Step(t)
  \/ \E t \in Threads : Return(t, FALSE)

\* The statements of the six bodies, without the acquisition of the guard.
BodyStep(t) ==
  \/ PushEmplace(t)
  \/ PopStep(t)
  \/ StealStep(t)
  \/ EmptyRead(t)
  \/ SizeRead(t)
  \/ ClearClear(t)

\* Fair guard acquisition: a thread that finds the guard free again and
\* again gets it in the end; a thread that can run does run.
ContendFair ==
  /\ \A t \in Threads : SF_vars(LockGuard(t))
  /\ \A t \in Threads : WF_vars(BodyStep(t))
  /\ \A t \in Threads : WF_vars(Return(t, FALSE))

ContendSpec == Init /\ [][ContendNext]_vars /\ ContendFair

SomeCanStep == \E t \in Threads : ENABLED (Step(t) \/ Return(t, FALSE))

\* C13: contention only delays, never aborts.  With every thread calling the
\* six operations on one instance, whenever a call is pending some thread
\* can take a step; a call that reaches its return carries the result of the
\* operation on the sequence it found, never a failure; and under fair guard
\* acquisition every call that has started returns.
C13_ContentionDelays ==
  /\ [](AllIdle \/ SomeCanStep)
  /\ [](\A t \in Threads :
          pc[t] = "unlock" => ret[t] = DequeRet(call[t], abs[call[t].q]))
  /\ \A t \in Threads : (pc[t] = "lock") ~> (pc[t] = "unlock")
  /\ \A t \in Threads : (pc[t] # "idle") ~> (pc[t] = "idle")

\* One thread is in the body of its call and every other thread waits for
\* the guard.
C13_Witness ==
  \E t \in Threads :
    /\ pc[t] \in BodyPcs
    /\ \A u \in Threads \ {t} : pc[u] = "lock"

\* An owner and thieves: one thread pushes uniquely tagged elements, so that
\* the tags tell the order of the pushes, and every thread pops and steals.
OwnerNext ==
  \/ npush < MaxTag /\ CallPush(Caller, "A", npush + 1)
  \/ \E t \in Threads : CallPop(t, "A")
  \/ \E t \in Threads : CallSteal(t, "A")
  \/ \E t \in Threads : LockGuard(t)
  \/ PushEmplace(Caller)
  \/ \E t \in Threads : PopStep(t)
  \/ \E t \in Threads : StealStep(t)
  \/ \E t \in Threads : Return(t, FALSE)

OwnerSpec == Init /\ [][OwnerNext]_vars

\* The tags that push has put into the sequence, those that pop or steal has
\* taken out of it, and those that are left.
Emplaced(v) ==
  /\ v \in 1 .. npush
  /\ \A t \in Threads :
       ~(call[t].op = "push" /\ call[t].arg = v
           /\ pc[t] \in {"lock", "push_emplace"})
TakenOut(v) == recv[v] > 0 \/ Holders(v) # {}
AllPushed == {v \in Elems : Emplaced(v)}
Remaining == {v \in Elems : Emplaced(v) /\ ~TakenOut(v)}
Oldest(S) == CHOOSE v \in S : \A w \in S : v <= w
Newest(S) == CHOOSE v \in S : \A w \in S : v >= w

\* C14 as stated: whenever the sequence is not empty, its front is the
\* oldest pushed element neither popped nor stolen and its back is the most
\* recently pushed element.
C14_BackIsLastPushed ==
  data["A"] # << >>
    => /\ Remaining # {}
       /\ Front(data["A"]) = Oldest(Remaining)
       /\ Back(data["A"]) = Newest(AllPushed)

\* C14, amended: whenever the sequence is not empty, its front is the oldest
\* pushed element that has been neither popped nor stolen, and its back is
\* the most recently pushed element that has been neither popped nor stolen.
C14_FrontBack ==
  data["A"] # << >>
    => /\ Remaining # {}
       /\ Front(data["A"]) = Oldest(Remaining)
       /\ Back(data["A"]) = Newest(Remaining)

\* Of three pushed elements the first has been popped and the last stolen.
C14_Witness ==
  /\ npush = 3
  /\ recv[1] = 1
  /\ recv[3] = 1
  /\ data["A"] = <<2>>

\* A pop or steal has taken v as its result; v has been removed by clear():
\* it was put into the sequence and is not there any more, though no pop or
\* steal has it or has returned it.
InHand(v) == \E t \in Threads : ret[t] = Some(v)
Cleared(v) ==
  /\ Emplaced(v)
  /\ Count(data["A"], v) = 0
  /\ recv[v] = 0
  /\ ~InHand(v)
InClear(t) == call[t].op = "clear" /\ pc[t] \in {"clear_clear", "unlock"}

\* C15: clear is atomic against racing calls.  While clear() is inside its
\* critical section no other call is inside one, and a call that starts its
\* body finds the sequence as the last finished call left it: the whole
\* sequence from before the clear, or the empty one after it.  When clear()
\* releases the guard the sequence is empty and every element that was in it
\* is gone for good: it never shows up in the sequence again and no later
\* pop or steal returns it, so the sequence holds only elements pushed after
\* the clear.
C15_ClearAtomic ==
  /\ [](\A t \in Threads :
          InClear(t) => /\ mutex[call[t].q] = t
                        /\ \A u \in Threads \ {t} : pc[u] \in {"idle", "lock"})
  /\ [](\A t \in Threads :
          pc[t] \in {"push_emplace", "pop_check", "steal_check"}
            => data[call[t].q] = abs[call[t].q])
  /\ [][\A t \in Threads :
          (InClear(t) /\ pc[t] = "unlock" /\ pc'[t] = "idle")
            => /\ data'["A"] = << >>
               /\ \A v \in Elems : (Emplaced(v) /\ recv[v] = 0) => Cleared(v)']_vars
  /\ [][\A v \in Elems : Cleared(v) => Cleared(v)']_vars

\* An element has been cleared away and a pop returns one pushed later.
C15_Witness ==
  \E t \in Threads, v \in Elems, w \in Elems :
    /\ Cleared(v)
    /\ pc[t] = "unlock"
    /\ call[t].op = "pop"
    /\ ret[t] = Some(w)

\* B is move-assigned from A by one thread while every thread, that one too
\* once its move has returned, pushes to A and pops and steals on A and on B.
\* A holds the tags 1..k when the run starts and B nothing; the elements
\* pushed to A carry fresh tags, and B gets its elements from A only.
TornInit ==
  /\ \E k \in 0 .. MaxLen : MoveInit(k, 0, TRUE)
  /\ pc = [t \in Threads |-> IF t = Caller THEN "mv_check" ELSE "idle"]
  /\ call = [t \in Threads |->
               IF t = Caller THEN MkCall("move_assign", "B", "A", 0) ELSE NoCall]

TornNext ==
  \/ \E t \in Threads : npush < MaxTag /\ CallPush(t, "A", npush + 1)
  \/ \E t \in Threads, q \in Insts : CallPop(t, q)
  \/ \E t \in Threads, q \in Insts : CallSteal(t, q)
  \/ \E t \in Threads : LockGuard(t)
  \/ \E t \in Threads : PushEmplace(t)
  \/ \E t \in Threads : PopStep(t)
  \/ \E t \in Threads : StealStep(t)
  \/ \E t \in Threads : Return(t, FALSE)
  \/ MoveCheck(Caller, FALSE)
  \/ MoveStep(Caller)
  \/ MoveReturn(Caller, FALSE)

TornSpec == TornInit /\ [][TornNext]_vars

\* The places a tag can be in: the two sequences, the result of a pop or
\* steal that has removed it, and the callers that have received it.
Places(v) ==
  Count(data["A"], v) + Count(data["B"], v)
    + Cardinality(Holders(v)) + recv[v]
InTransfer(t) == pc[t] \in {"mv_data", "mv_unlock_other"}

\* C16: no torn move.  From the moment std::lock has returned until the
\* transfer is done the moving thread owns both guards and no other thread
\* is inside a critical section on either instance; before the transfer both
\* sequences are as the last finished calls left them, and after it B holds
\* the sequence A had and A holds nothing.  Every element pushed to A is in
\* exactly one place: in A, in B, or returned by one pop or steal.
C16_NoTornMove ==
  /\ \A t \in Threads :
       InTransfer(t)
         => /\ mutex[call[t].q] = t
            /\ mutex[call[t].other] = t
            /\ \A u \in Threads \ {t}, q \in Insts : ~InCritical(u, q)
  /\ \A t \in Threads :
       pc[t] = "mv_data" => \A q \in Insts : data[q] = abs[q]
  /\ \A t \in Threads :
       pc[t] = "mv_unlock_other"
         => /\ data[call[t].q] = abs[call[t].other]
            /\ data[call[t].other] = << >>
  /\ \A v \in Elems : Places(v) = IF Emplaced(v) THEN 1 ELSE 0

\* The transfer is done, B has got elements of A, one element had been
\* popped before and another thread waits for the guard of A.
C16_Witness ==
  \E t \in Threads, u \in Threads, v \in Elems :
    /\ pc[t] = "mv_unlock_other"
    /\ Len(data["B"]) >= 1
    /\ recv[v] = 1
    /\ pc[u] = "lock"
    /\ call[u].q = "A"

\* The return in its two steps: the lock_guard is destroyed and the guard
\* released while the result is on its way, ...
ReturnUnlock(t) ==
  /\ pc[t] = "unlock"
  /\ MutexUnlock(t, call[t].q)
  /\ pc' = [pc EXCEPT ![t] = "return"]
  /\ abs' = [abs EXCEPT ![call[t].q] = data[call[t].q]]
  /\ UNCHANGED <<data, alive, call, loc, ret, recv, npush, log>>

\* ... then the caller has the result.
ReturnValue(t) ==
  /\ pc[t] = "return"
  /\ pc' = [pc EXCEPT ![t] = "idle"]
  /\ recv' = Received(ret[t])
  /\ call' = [call EXCEPT ![t] = NoCall]
  /\ ret' = [ret EXCEPT ![t] = NoRet]
  /\ UNCHANGED <<data, mutex, alive, loc, abs, npush, log>>

\* Readers and writers: threads calling empty and size while others push and
\* pop, the guard released before the caller has the result.
SnapshotNext ==
  \/ \E t \in Threads : npush < MaxTag /\ CallPush(t, "A", npush + 1)
  \/ \E t \in Threads : CallPop(t, "A")
  \/ \E t \in Threads : CallEmpty(t, "A")
  \/ \E t \in Threads : CallSize(t, "A")
  \/ \E t \in Threads : LockGuard(t)
  \/ \E t \in Threads : PushEmplace(t)
  \/ \E t \in Threads : PopStep(t)
  \/ \E t \in Threads : EmptyRead(t)
  \/ \E t \in Threads : SizeRead(t)
  \/ \E t \in Threads : ReturnUnlock(t)
  \/ \E t \in Threads : ReturnValue(t)

SnapshotSpec == Init /\ [][SnapshotNext]_vars

Reading(t) == call[t].op \in {"empty", "size"}

\* C17: snapshot reads.  While size() or empty() holds the guard the
\* sequence is the one the call found; the result of size() is its length
\* and the result of empty() is true exactly when that length is zero; no
\* step of such a call changes a sequence; and the result is not refreshed
\* once the guard is released, so that the caller can get a length the
\* sequence does not have any more.
C17_SnapshotReads ==
  /\ [](\A t \in Threads :
          (Reading(t) /\ pc[t] \in {"empty_read", "size_read", "unlock"})
            => data[call[t].q] = abs[call[t].q])
  /\ [](\A t \in Threads :
          (pc[t] = "unlock" /\ call[t].op = "size")
            => ret[t] = Size(Len(abs[call[t].q])))
  /\ [](\A t \in Threads :
          (pc[t] = "unlock" /\ call[t].op = "empty")
            => ret[t] = Bool(Len(abs[call[t].q]) = 0))
  /\ [][\A t \in Threads :
          (Reading(t) /\ pc'[t] # pc[t]) => data' = data]_vars
  /\ [][\A t \in Threads :
          (pc[t] = "return" /\ pc'[t] = "return") => ret'[t] = ret[t]]_vars

\* size() has released the guard with the length 2 as its result and the
\* sequence is shorter or longer by the time the caller gets it.
C17_Witness ==
  \E t \in Threads :
    /\ pc[t] = "return"
    /\ call[t].op = "size"
    /\ ret[t] = Size(2)
    /\ Len(data["A"]) # 2

\* Threads move-assigning the instances to one another and to themselves.
SelfMoveInit ==
  /\ \E k \in 0 .. MaxLen, m \in 0 .. MaxLen : MoveInit(k, m, TRUE)
  /\ pc = [t \in Threads |-> "idle"]
  /\ call = [t \in Threads |-> NoCall]

SelfMoveNext ==
  \/ \E t \in Threads, q \in Insts, o \in Insts : CallMoveAssign(t, q, o)
  \/ \E t \in Threads : MoveCheck(t, FALSE)
  \/ \E t \in Threads : MoveStep(t)
  \/ \E t \in Threads : MoveReturn(t, FALSE)

SelfMoveSpec == SelfMoveInit /\ [][SelfMoveNext]_vars

SelfMove(t) == call[t].op = "move_assign" /\ call[t].q = call[t].other

\* C18: self move-assignment is a no-op.  A thread move-assigning an
\* instance to itself gets no further than the test: it owns no guard, can
\* take its step whoever owns the guard of the instance, and that step is
\* the return, with every sequence and every guard as it was.
C18_SelfMoveNoOp ==
  /\ [](\A t \in Threads :
          SelfMove(t) => /\ pc[t] = "mv_check"
                         /\ \A q \in Insts : mutex[q] # t
                         /\ ENABLED MoveCheck(t, FALSE))
  /\ [][\A t \in Threads :
          (SelfMove(t) /\ pc'[t] # pc[t])
            => /\ pc'[t] = "idle"
               /\ data' = data
               /\ mutex' = mutex
               /\ abs' = abs]_vars

\* A thread move-assigns A to itself while another thread, in the middle of
\* a move, owns the guard of A; A is not empty.
C18_Witness ==
  \E t \in Threads, u \in Threads :
    /\ SelfMove(t)
    /\ call[t].q = "A"
    /\ mutex["A"] = u
    /\ pc[u] = "mv_data"
    /\ Len(data["A"]) = MaxLen

\* Thread t is in a call on instance q, as this or as the other of a move.
Using(t, q) ==
  /\ pc[t] # "idle"
  /\ \/ call[t].q = q
     \/ call[t].op \in {"move_ctor", "move_assign"} /\ call[t].other = q
NotYetLocked == {"idle", "lock", "mv_check", "mv_lock"}

\* C19: the guard is released on every path.  A guard is owned only by a
\* thread that is in a call on its instance and past an acquisition; so when
\* no call is in progress on an instance its guard is free, after the early
\* return of pop() and steal() and after a move as after any other return,
\* and a thread that waits for the guard of an instance no other thread is
\* using can acquire it.
C19_GuardReleased ==
  /\ \A q \in Insts :
       mutex[q] # NoThread
         => /\ Using(mutex[q], q)
            /\ pc[mutex[q]] \notin NotYetLocked
  /\ \A q \in Insts :
       (\A t \in Threads : ~Using(t, q)) => mutex[q] = NoThread
  /\ \A t \in Threads :
       (pc[t] = "lock" /\ \A u \in Threads \ {t} : ~Using(u, call[t].q))
         => ENABLED LockGuard(t)

\* A move has brought an element to B and has returned; a call on A waits
\* for the guard with no other call in progress, and both guards are free.
C19_Witness ==
  \E t \in Threads :
    /\ pc[t] = "lock"
    /\ call[t].q = "A"
    /\ OthersIdle(t)
    /\ Len(data["B"]) = 1
    /\ data["A"] = << >>
    /\ GuardsFree

\* Thread t is in one of the six calls that name one instance.
Plain(t) ==
  /\ pc[t] # "idle"
  /\ call[t].op \in {"push", "pop", "steal", "empty", "size", "clear"}
OwnsTwo(t) ==
  \E q \in Insts, r \in Insts : q # r /\ mutex[q] = t /\ mutex[r] = t

\* C20: instance independence.  A thread in push, pop, steal, empty, size or
\* clear on an instance owns no guard but that instance's, can acquire that
\* guard whenever it is free, whoever owns the guard of the other instance,
\* and none of its steps changes the sequence or the guard of the other
\* instance; a thread that owns two guards is in a move.
C20_Independent ==
  /\ [](\A t \in Threads :
          Plain(t) => \A q \in Insts : mutex[q] = t => q = call[t].q)
  /\ [](\A t \in Threads :
          (pc[t] = "lock" /\ mutex[call[t].q] = NoThread)
            => ENABLED LockGuard(t))
  /\ [](\A t \in Threads :
          OwnsTwo(t) => call[t].op \in {"move_ctor", "move_assign"})
  /\ [][\A t \in Threads :
          (Plain(t) /\ pc'[t] # pc[t])
            => \A q \in Insts \ {call[t].q} :
                 data'[q] = data[q] /\ mutex'[q] = mutex[q]]_vars

\* A push on A has put its element into A while another thread, in a move,
\* owns the guard of B, and B holds an element.
C20_Witness ==
  \E t \in Threads, u \in Threads :
    /\ pc[t] = "unlock"
    /\ call[t].op = "push"
    /\ call[t].q = "A"
    /\ mutex["B"] = u
    /\ u # t
====
